---- MODULE Spec2Model ----
(***************************************************************************)
(* GraphFromBlueprint (pipelines/lib/bp-codepipeline/_graph-from-blueprint) *)
(* turns a deployment blueprint into a dependency graph.  The constructor  *)
(* is modelled as a sequence of steps; the blueprint is read lazily, so    *)
(* every part of it is drawn from a small set at the step that reads it     *)
(* and recorded in the input variables.                                     *)
(***************************************************************************)
EXTENDS Naturals, Sequences, FiniteSets, TLC

\* ------------------------------------------------------------------ bounds
\* The size of the blueprint: Step dependency edges + waves without stages +
\* stages + stacks + custom cloud assemblies + required assets + hook entries
\* + stack dependency edges.
MaxSize == 4
\* The number of dependency edges the Steps declare among themselves.
MaxDepEdges == 2
\* The number of calls made on one Pipeline.
MaxCalls == 4

\* ------------------------------------------------------------------ inputs
\* The Steps a blueprint is made of.  "synth" is blueprint.synthStep, "src"
\* is the Step that is an instance of CodePipelineSource.
Steps == {"synth", "src", "a", "b"}
SynthStep == "synth"
SourceSteps == {"src"}
NoStep == "none"
\* The Steps that stacks name as producers of a custom cloud assembly and
\* that stages and waves list as hooks.
UserSteps == Steps \ {SynthStep}

AssetIds == {"f1", "d1"}
AssetSelectors == {"s1", "s2"}
AssetTypeOf(id) == IF id = "f1" THEN "file" ELSE "docker-image"
StackAssets ==
  {[assetId |-> i, assetSelector |-> s, assetType |-> AssetTypeOf(i)] :
     i \in AssetIds, s \in AssetSelectors}

\* Sequences over S of length at most n.
SeqsUpTo(S, n) == UNION {[1..k -> S] : k \in 0..n}

\* The declared Step dependencies, as a list of distinct edges <<from, to>>
\* in the order of declaration.
EdgeSeqs ==
  {q \in SeqsUpTo(Steps \X Steps, MaxDepEdges) :
     \A i, j \in DOMAIN q : i # j => q[i] # q[j]}

\* step.dependencySteps of every Step, from the list of edges.
DepsOf(es) ==
  [s \in Steps |->
     LET sel == SelectSeq(es, LAMBDA e : e[1] = s)
     IN [i \in 1..Len(sel) |-> sel[i][2]]]

VARIABLES
  \* the blueprint and the props, as read so far
  dependencySteps,     \* Step -> sequence of Steps (Step.dependencySteps)
  hasOutput,           \* blueprint.synthStep.primaryOutput?.primaryOutput is set
  selfMutation,        \* props.selfMutation
  size,                \* the size of the blueprint read so far
  stacks,              \* the StackDeployments read so far, with their nodes
  stages,              \* the StageDeployments compiled so far
  waveLog,             \* the Waves compiled so far
  \* GraphFromBlueprint's fields
  nodes,               \* every GraphNode and Graph created; nodes[1] is this.graph
  added,               \* this.added: Step -> node (0: no entry)
  assetNodes,          \* this.assetNodes: assetId -> node (0: no entry)
  synthNode,
  selfMutateNode,
  lastPreparationNode,
  fileAssetCtr,
  dockerAssetCtr,
  cloudAssemblyFileSet, \* the producer Step of the file set, NoStep before it is set
  \* the position in the constructor and the locals of addWave / addStage
  pc,
  result,              \* "running", "constructed" or "error"
  waves,               \* the graphs blueprint.waves.map(addWave) has returned
  stageGraphs,         \* the graphs wave.stages.map(addStage) has returned
  retGraph,            \* addStage's retGraph (0 outside addStage)
  stackGraphs,         \* addStage's stackGraphs: the stacks of this stage, in order
  \* history
  calls,               \* the number of calls of addAndRecurse, recursive ones included
  visits,              \* the calls of addAndRecurse
  requests,            \* the calls of publishAsset
  barriers,            \* the calls of addPrePost
  \* Pipeline's fields (bp-main/pipeline.ts)
  built,
  blueprint,           \* what blueprint.addStage / addWave were given, in order
  \* history
  engineCalls,         \* the invocations of engine.buildDeployment
  log                  \* the calls of the Pipeline's methods

inputVars == <<dependencySteps, hasOutput, selfMutation, size, stacks, stages, waveLog>>
fieldVars == <<nodes, added, assetNodes, synthNode, selfMutateNode,
               lastPreparationNode, fileAssetCtr, dockerAssetCtr,
               cloudAssemblyFileSet>>
localVars == <<pc, result, waves, stageGraphs, retGraph, stackGraphs>>
historyVars == <<calls, visits, requests, barriers>>
compilerVars == <<inputVars, fieldVars, localVars, historyVars>>
pipelineVars == <<built, blueprint, engineCalls, log>>
vars == <<compilerVars, pipelineVars>>

\* ------------------------------------------------------- graph container
\* private/graph.ts is not among the sources: Graph and GraphNode follow the
\* contract of the specification (composition tree + dependency edges).
Root == 1

GraphNodeOf(name, type, step, stack, assets) ==
  [name |-> name, type |-> type, parent |-> 0, deps |-> {},
   step |-> step, stack |-> stack, assets |-> assets, isBuildStep |-> FALSE]

\* parent.add(...ns)
GraphAdd(ns, g, children) ==
  [i \in DOMAIN ns |->
     IF i \in children THEN [ns[i] EXCEPT !.parent = g] ELSE ns[i]]

\* n.dependOn(...ds)
DependOn(ns, n, ds) == [ns EXCEPT ![n].deps = @ \cup ds]

\* new GraphNodeCollection(coll).dependOn(d)
CollectionDependOn(ns, coll, d) ==
  [i \in DOMAIN ns |->
     IF i \in coll THEN [ns[i] EXCEPT !.deps = @ \cup {d}] ELSE ns[i]]

\* parent.nodes: the direct children
GraphNodes(ns, g) == {i \in DOMAIN ns : ns[i].parent = g}

\* parent.tryGetChild(name): 0 when there is none
TryGetChild(ns, g, name) ==
  IF \E i \in GraphNodes(ns, g) : ns[i].name = name
  THEN CHOOSE i \in GraphNodes(ns, g) : ns[i].name = name
  ELSE 0

\* ------------------------------------------------------------ operations
\* topLevelGraph(name): the child of the root with that name, created on
\* first use by new Graph(name), which has no annotation.
topLevelGraph(ns, name) ==
  LET ret == TryGetChild(ns, Root, name) IN
  IF ret # 0 THEN [nodes |-> ns, ret |-> ret]
  ELSE [nodes |-> Append(ns, [GraphNodeOf(name, "none", NoStep, 0, <<>>)
                               EXCEPT !.parent = Root]),
        ret |-> Len(ns) + 1]

\* addAndRecurse(step, parent) on the state st = [nodes, added, calls, visits];
\* .ret is the node returned.  A visit records the Step, the parent asked
\* for, the node returned, whether the call created it, and the group that
\* holds the node when the call returns.
RECURSIVE addAndRecurse(_, _, _)
RECURSIVE RecurseDeps(_, _, _, _)

\* No edge on a node that existed before the node of the Step did.
LinkedUnlessVisited(r, node) ==
  IF r.ret < node THEN r ELSE [r EXCEPT !.nodes = DependOn(r.nodes, node, {r.ret})]

\* line 155: node.dependOn(producerNode), r being the state the recursive
\* call returned
Linked(r, node) == [r EXCEPT !.nodes = DependOn(r.nodes, node, {r.ret})]

\* lines 153-156:
\* for (const dep of step.dependencySteps) { node.dependOn(addAndRecurse(dep, parent)) }
RecurseDeps(st, deps, node, parent) ==
  IF deps = <<>> THEN st
  ELSE RecurseDeps(Linked(addAndRecurse(st, Head(deps), parent), node),
                   Tail(deps), node, parent)

\* A revisit that attaches the node to the parent of the repeat call.
RevisitReparent(st, step, parent, previous) ==
  [st EXCEPT !.ret = previous,
             !.nodes = GraphAdd(st.nodes, parent, {previous}),
             !.visits = @ \cup {[step |-> step, parent |-> parent, ret |-> previous,
                                 created |-> FALSE, placed |-> parent]}]

\* The memo entry ignored: the Step gets another node, which replaces the
\* entry; its dependencies are not walked again.
RevisitCreates(st, step, parent, previous) ==
  [st EXCEPT !.nodes = Append(@, [GraphNodeOf(<<step, 0>>, "step", step, 0, <<>>)
                                    EXCEPT !.parent = parent]),
             !.added[step] = Len(st.nodes) + 1,
             !.ret = Len(st.nodes) + 1,
             !.visits = @ \cup {[step |-> step, parent |-> parent,
                                 ret |-> Len(st.nodes) + 1, created |-> TRUE,
                                 placed |-> parent]}]

\* lines 139-140: the Step has a node already
Revisit(st, step, parent, previous) ==
  [st EXCEPT !.ret = previous,
             !.visits = @ \cup {[step |-> step, parent |-> parent, ret |-> previous,
                                 created |-> FALSE,
                                 placed |-> st.nodes[previous].parent]}]

\* A placement without the override for source Steps.
PlacementParentAsAsked(ns, step, parent) == [nodes |-> ns, ret |-> parent]

\* lines 144-148: the group the new node goes to
PlacementParent(ns, step, parent) ==
  IF step \in SourceSteps
  THEN topLevelGraph(ns, <<"Source", 0>>)
  ELSE [nodes |-> ns, ret |-> parent]

\* lines 142-151: the new node, in the group top.ret of the graph top.nodes,
\* registered in the memo
Created(st, step, parent, top) ==
  [st EXCEPT
     !.nodes = Append(top.nodes, [GraphNodeOf(<<step, 0>>, "step", step, 0, <<>>)
                                    EXCEPT !.parent = top.ret]),
     !.added[step] = Len(top.nodes) + 1,
     !.visits = @ \cup {[step |-> step, parent |-> parent, ret |-> Len(top.nodes) + 1,
                         created |-> TRUE, placed |-> top.ret]}]

\* lines 142-158: the first visit of the Step
FirstVisit(st, step, parent, top) ==
  [RecurseDeps(Created(st, step, parent, top), dependencySteps[step],
               Len(top.nodes) + 1, top.ret)
     EXCEPT !.ret = Len(top.nodes) + 1]

\* line 138: the call is entered
Called(st) == [st EXCEPT !.calls = @ + 1]

addAndRecurse(st, step, parent) ==
  IF st.added[step] # 0
  THEN Revisit(Called(st), step, parent, st.added[step])
  ELSE FirstVisit(Called(st), step, parent, PlacementParent(st.nodes, step, parent))

\* The memo given the group the node goes to.
MemoEntryAssetsGraph(newNode, assetsGraph) == assetsGraph

\* line 179: this.assetNodes.set(stackAsset.assetId, newNode)
MemoEntry(newNode, assetsGraph) == newNode

\* publishAsset(stackAsset) on the fields f = [nodes, assetNodes, fileAssetCtr,
\* dockerAssetCtr]; .ret is the node returned, .thrown whether it threw.
publishAsset(f, stackAsset, lastPrep) ==
  LET top == topLevelGraph(f.nodes, <<"Assets", 0>>)
      assetsGraph == top.ret
      assetNode == f.assetNodes[stackAsset.assetId]
      wrongType == assetNode # 0 /\ top.nodes[assetNode].type # "publish-assets"
      \* lines 165-175: the node of the memo takes the selector if it is new
      n1 == IF assetNode # 0 /\ ~wrongType
               /\ ~\E k \in DOMAIN top.nodes[assetNode].assets :
                      top.nodes[assetNode].assets[k].assetSelector = stackAsset.assetSelector
            THEN [top.nodes EXCEPT ![assetNode].assets = Append(@, stackAsset)]
            ELSE top.nodes
      \* lines 177-182: no return in the branch above, so these always run
      isFile == stackAsset.assetType = "file"
      fileCtr == IF isFile THEN f.fileAssetCtr + 1 ELSE f.fileAssetCtr
      dockerCtr == IF isFile THEN f.dockerAssetCtr ELSE f.dockerAssetCtr + 1
      id == IF isFile THEN <<"FileAsset", fileCtr>> ELSE <<"DockerAsset", dockerCtr>>
      newNode == Len(n1) + 1
      n2 == Append(n1, [GraphNodeOf(id, "publish-assets", NoStep, 0, <<stackAsset>>)
                          EXCEPT !.parent = assetsGraph, !.deps = {lastPrep}])
  IN IF wrongType
     THEN [nodes |-> top.nodes, assetNodes |-> f.assetNodes,
           fileAssetCtr |-> f.fileAssetCtr, dockerAssetCtr |-> f.dockerAssetCtr,
           ret |-> 0, thrown |-> TRUE]
     ELSE [nodes |-> n2,
           assetNodes |-> [f.assetNodes EXCEPT ![stackAsset.assetId] =
                                                 MemoEntry(newNode, assetsGraph)],
           fileAssetCtr |-> fileCtr, dockerAssetCtr |-> dockerCtr,
           ret |-> newNode, thrown |-> FALSE]

\* addPrePost(pre, post, parent) on b = [st, pre, post, edges]: st is the
\* state of addAndRecurse, pre and post the nodes of the hooks and edges the
\* dependency edges <<from, to>> that lines 121 and 125 add.
\* line 121: currentNodes.dependOn(preNode), r being what addAndRecurse returned
PreLinked(b, r, currentNodes) ==
  [b EXCEPT !.st = [r EXCEPT !.nodes = CollectionDependOn(r.nodes, currentNodes, r.ret)],
            !.pre = @ \cup {r.ret},
            !.edges = @ \cup {<<c, r.ret>> : c \in currentNodes}]

\* line 125: postNode.dependOn(...currentNodes.nodes)
PostLinked(b, r, currentNodes) ==
  [b EXCEPT !.st = [r EXCEPT !.nodes = DependOn(r.nodes, r.ret, currentNodes)],
            !.post = @ \cup {r.ret},
            !.edges = @ \cup {<<r.ret, c>> : c \in currentNodes}]

RECURSIVE AddPre(_, _, _, _)
AddPre(b, pre, currentNodes, parent) ==
  IF pre = <<>> THEN b
  ELSE AddPre(PreLinked(b, addAndRecurse(b.st, Head(pre), parent), currentNodes),
              Tail(pre), currentNodes, parent)

RECURSIVE AddPost(_, _, _, _)
AddPost(b, post, currentNodes, parent) ==
  IF post = <<>> THEN b
  ELSE AddPost(PostLinked(b, addAndRecurse(b.st, Head(post), parent), currentNodes),
               Tail(post), currentNodes, parent)

\* line 118: the snapshot of the parent's direct children
Barrier(st, parent, currentNodes) ==
  [st |-> st, parent |-> parent, baseline |-> currentNodes,
   pre |-> {}, post |-> {}, edges |-> {}]

addPrePost(st, pre, post, parent) ==
  AddPost(AddPre(Barrier(st, parent, GraphNodes(st.nodes, parent)),
                 pre, GraphNodes(st.nodes, parent), parent),
          post, GraphNodes(st.nodes, parent), parent)

\* A single pass: a stack's dependencies are wired when the stack is compiled,
\* so only those on stacks declared before it are found in stackGraphs.
stackDependenciesOnePass(ns, stks, sts, deps) ==
  [i \in DOMAIN ns |->
     IF \E j \in DOMAIN stks : sts[stks[j]].graph = i
     THEN LET k == CHOOSE k \in {stks[j] : j \in DOMAIN stks} : sts[k].graph = i
          IN [ns[i] EXCEPT !.deps = @ \cup {sts[d].graph : d \in {d \in deps[k] : d < k}}]
     ELSE ns[i]]

\* addStage, lines 106-110: the stacks of the stage are stks (stack numbers,
\* in order), deps[k] the stacks that stack k dependsOn.
stackDependencies(ns, stks, sts, deps) ==
  [i \in DOMAIN ns |->
     IF \E j \in DOMAIN stks : sts[stks[j]].graph = i
     THEN LET k == CHOOSE k \in {stks[j] : j \in DOMAIN stks} : sts[k].graph = i
          IN [ns[i] EXCEPT !.deps = @ \cup {sts[d].graph : d \in deps[k]}]
     ELSE ns[i]]

\* The hooks of a stage or wave: pre and post lists within the size left.
HookLists(left) ==
  UNION {{<<pre, post>> : post \in SeqsUpTo(UserSteps, left - Len(pre))} :
           pre \in SeqsUpTo(UserSteps, left)}

\* The state addAndRecurse works on.
Here == [nodes |-> nodes, added |-> added, calls |-> calls, visits |-> visits, ret |-> 0]

\* ------------------------------------------------------------------- Init
\* The fields of a GraphFromBlueprint before its constructor has run.
FieldsInit ==
  /\ stacks = <<>>
  /\ stages = <<>>
  /\ waveLog = <<>>
  /\ nodes = <<GraphNodeOf(<<"", 0>>, "group", NoStep, 0, <<>>)>>
  /\ added = [s \in Steps |-> 0]
  /\ assetNodes = [i \in AssetIds |-> 0]
  /\ synthNode = 0
  /\ selfMutateNode = 0
  /\ lastPreparationNode = 0
  /\ fileAssetCtr = 0
  /\ dockerAssetCtr = 0
  /\ cloudAssemblyFileSet = NoStep
  /\ pc = "addBuildStep"
  /\ result = "running"
  /\ waves = <<>>
  /\ stageGraphs = <<>>
  /\ retGraph = 0
  /\ stackGraphs = <<>>
  /\ calls = 0
  /\ visits = {}
  /\ requests = <<>>
  /\ barriers = <<>>

\* pipeline.ts, lines 15-27: the fields of a new Pipeline
PipelineFieldsInit ==
  /\ built = FALSE
  /\ blueprint = <<>>
  /\ engineCalls = 0
  /\ log = <<>>

Init ==
  /\ \E es \in EdgeSeqs :
       /\ Len(es) <= MaxSize
       /\ dependencySteps = DepsOf(es)
       /\ size = Len(es)
  /\ hasOutput \in BOOLEAN
  /\ selfMutation \in BOOLEAN
  /\ FieldsInit
  /\ PipelineFieldsInit

\* constructor, lines 28-32, r being what addBuildStep returned
SynthAdded(r) ==
  /\ nodes' = [r.nodes EXCEPT ![r.ret].isBuildStep =
                                 IF r.nodes[r.ret].type = "step" THEN TRUE ELSE @]
  /\ added' = r.added
  /\ calls' = r.calls
  /\ visits' = r.visits
  /\ synthNode' = r.ret
  /\ lastPreparationNode' = r.ret

\* lines 63-65: addAndRecurse(step, this.topLevelGraph('Build'))
addBuildStep(step, build) ==
  addAndRecurse([Here EXCEPT !.nodes = build.nodes], step, build.ret)

\* constructor, lines 28-32: addBuildStep(blueprint.synthStep)
AddBuildStep ==
  /\ pc = "addBuildStep"
  /\ SynthAdded(addBuildStep(SynthStep, topLevelGraph(nodes, <<"Build", 0>>)))
  /\ pc' = "cloudAssembly"
  /\ UNCHANGED <<inputVars, assetNodes, selfMutateNode, fileAssetCtr, dockerAssetCtr,
                 cloudAssemblyFileSet, result, waves, stageGraphs, retGraph,
                 stackGraphs, requests, barriers>>
  /\ UNCHANGED pipelineVars

\* The check of line 35 left out.
NoCloudAssemblyCheck == FALSE

\* constructor, lines 34-35: !cloudAssembly
NoCloudAssembly == ~hasOutput

\* constructor, lines 34-37: the synth step has no output
MissingCloudAssembly ==
  /\ pc = "cloudAssembly"
  /\ NoCloudAssembly
  /\ pc' = "failed"
  /\ result' = "error"
  /\ UNCHANGED <<inputVars, fieldVars, waves, stageGraphs, retGraph, stackGraphs,
                 historyVars>>
  /\ UNCHANGED pipelineVars

\* constructor, lines 34-39: the synth step has an output
SetCloudAssembly ==
  /\ pc = "cloudAssembly"
  /\ ~NoCloudAssembly
  /\ cloudAssemblyFileSet' = SynthStep
  /\ pc' = "selfMutation"
  /\ UNCHANGED <<inputVars, nodes, added, assetNodes, synthNode, selfMutateNode,
                 lastPreparationNode, fileAssetCtr, dockerAssetCtr, result, waves,
                 stageGraphs, retGraph, stackGraphs, historyVars>>
  /\ UNCHANGED pipelineVars

\* constructor, lines 41-49
SelfMutation ==
  /\ pc = "selfMutation"
  /\ IF selfMutation
     THEN LET stage == Len(nodes) + 1
              self == Len(nodes) + 2
              n1 == Append(nodes, [GraphNodeOf(<<"UpdatePipeline", 0>>, "group", NoStep, 0, <<>>)
                                     EXCEPT !.parent = Root])
              n2 == Append(n1, [GraphNodeOf(<<"SelfMutate", 0>>, "self-update", NoStep, 0, <<>>)
                                  EXCEPT !.parent = stage])
          IN /\ nodes' = DependOn(n2, self, {synthNode})
             /\ selfMutateNode' = self
             /\ lastPreparationNode' = self
     ELSE UNCHANGED <<nodes, selfMutateNode, lastPreparationNode>>
  /\ pc' = "waves"
  /\ UNCHANGED <<inputVars, added, assetNodes, synthNode, fileAssetCtr, dockerAssetCtr,
                 cloudAssemblyFileSet, result, waves, stageGraphs, retGraph,
                 stackGraphs, historyVars>>
  /\ UNCHANGED pipelineVars

\* addStage, lines 79-82: a stage of the wave being compiled
BeginStage ==
  /\ pc = "waves"
  /\ size + 1 <= MaxSize
  /\ size' = size + 1
  /\ nodes' = Append(nodes, GraphNodeOf(<<"Stage", Len(stages) + 1>>, "group", NoStep, 0, <<>>))
  /\ retGraph' = Len(nodes) + 1
  /\ stackGraphs' = <<>>
  /\ stages' = Append(stages, [graph |-> Len(nodes) + 1, wave |-> Len(waves) + 1,
                               stacks |-> <<>>, pre |-> <<>>, post |-> <<>>,
                               compiled |-> FALSE])
  /\ pc' = "stacks"
  /\ UNCHANGED <<dependencySteps, hasOutput, selfMutation, stacks, waveLog, added,
                 assetNodes, synthNode, selfMutateNode, lastPreparationNode,
                 fileAssetCtr, dockerAssetCtr, cloudAssemblyFileSet, result, waves,
                 stageGraphs, historyVars>>
  /\ UNCHANGED pipelineVars

\* lines 85-91: the group of stack k with its Prepare and Deploy nodes
StackGraphOf(ns, k) ==
  ns \o << GraphNodeOf(<<"Stack", k>>, "stack-group", NoStep, k, <<>>),
           [GraphNodeOf(<<"Prepare", 0>>, "prepare", NoStep, k, <<>>)
              EXCEPT !.parent = Len(ns) + 1],
           [GraphNodeOf(<<"Deploy", 0>>, "execute", NoStep, k, <<>>)
              EXCEPT !.parent = Len(ns) + 1, !.deps = {Len(ns) + 2}] >>

\* lines 93-95: prepare.dependOn(r.ret), r being what addAndRecurse returned
StackAdded(custom, k, stackGraph, r) ==
  /\ nodes' = DependOn(r.nodes, stackGraph + 1, {r.ret})
  /\ added' = r.added
  /\ calls' = r.calls
  /\ visits' = r.visits
  /\ stacks' = Append(stacks, [stage |-> Len(stages), custom |-> custom,
                               requiredAssets |-> <<>>, dependsOnStacks |-> {},
                               graph |-> stackGraph, prepare |-> stackGraph + 1,
                               deploy |-> stackGraph + 2])
  /\ stackGraphs' = Append(stackGraphs, k)
  /\ stages' = [stages EXCEPT ![Len(stages)].stacks = Append(@, k)]

\* The custom cloud assembly of the stack ignored.
cloudAssemblyProducerShared(custom) == cloudAssemblyFileSet

\* line 94: the producer of stack.customCloudAssembly?.primaryOutput ??
\* this.cloudAssemblyFileSet
cloudAssemblyProducer(custom) ==
  IF custom # NoStep THEN custom ELSE cloudAssemblyFileSet

\* addStage, lines 84-95: the next stack of the stage
AddStack ==
  /\ pc = "stacks"
  /\ \E custom \in UserSteps \cup {NoStep} :
       /\ size + (IF custom = NoStep THEN 1 ELSE 2) <= MaxSize
       /\ size' = size + (IF custom = NoStep THEN 1 ELSE 2)
       /\ StackAdded(custom, Len(stacks) + 1, Len(nodes) + 1,
                     addAndRecurse([Here EXCEPT !.nodes = StackGraphOf(nodes, Len(stacks) + 1)],
                                   cloudAssemblyProducer(custom),
                                   retGraph))
  /\ UNCHANGED <<dependencySteps, hasOutput, selfMutation, waveLog, assetNodes, synthNode,
                 selfMutateNode, lastPreparationNode, fileAssetCtr, dockerAssetCtr,
                 cloudAssemblyFileSet, pc, result, waves, stageGraphs, retGraph,
                 requests, barriers>>
  /\ UNCHANGED pipelineVars

\* lines 101-102, r being what publishAsset returned to stack k
AssetPublished(stackAsset, k, r) ==
  /\ assetNodes' = r.assetNodes
  /\ fileAssetCtr' = r.fileAssetCtr
  /\ dockerAssetCtr' = r.dockerAssetCtr
  /\ stacks' = [stacks EXCEPT ![k].requiredAssets = Append(@, stackAsset)]
  /\ requests' = Append(requests, [asset |-> stackAsset, stack |-> k,
                                   ret |-> r.ret, thrown |-> r.thrown])
  /\ IF r.thrown
     THEN /\ nodes' = r.nodes
          /\ pc' = "failed"
          /\ result' = "error"
     ELSE /\ nodes' = DependOn(r.nodes, stacks[k].prepare, {r.ret})
          /\ UNCHANGED <<pc, result>>

\* addStage, lines 100-103: the next required asset of the stack
PublishAsset ==
  /\ pc = "stacks"
  /\ stackGraphs # <<>>
  /\ size + 1 <= MaxSize
  /\ \E stackAsset \in StackAssets :
       AssetPublished(stackAsset, stackGraphs[Len(stackGraphs)],
                      publishAsset([nodes |-> nodes, assetNodes |-> assetNodes,
                                    fileAssetCtr |-> fileAssetCtr,
                                    dockerAssetCtr |-> dockerAssetCtr],
                                   stackAsset, lastPreparationNode))
  /\ size' = size + 1
  /\ UNCHANGED <<dependencySteps, hasOutput, selfMutation, stages, waveLog, added,
                 synthNode, selfMutateNode, lastPreparationNode, cloudAssemblyFileSet,
                 waves, stageGraphs, retGraph, stackGraphs, calls, visits,
                 barriers>>
  /\ UNCHANGED pipelineVars

\* addStage, lines 106-110: the stacks' dependsOnStacks, all within the stage
StackDependencies ==
  /\ pc = "stacks"
  /\ LET here == {stackGraphs[j] : j \in DOMAIN stackGraphs} IN
     \E deps \in [here -> SUBSET here] :
       LET cost == Cardinality({e \in here \X here : e[2] \in deps[e[1]]}) IN
       /\ \A k \in here : k \notin deps[k]
       /\ size + cost <= MaxSize
       /\ size' = size + cost
       /\ nodes' = stackDependencies(nodes, stackGraphs, stacks, deps)
       /\ stacks' = [k \in DOMAIN stacks |->
                       IF k \in here THEN [stacks[k] EXCEPT !.dependsOnStacks = deps[k]]
                       ELSE stacks[k]]
  /\ pc' = "stagePrePost"
  /\ UNCHANGED <<dependencySteps, hasOutput, selfMutation, stages, waveLog, added,
                 assetNodes, synthNode, selfMutateNode, lastPreparationNode,
                 fileAssetCtr, dockerAssetCtr, cloudAssemblyFileSet, result, waves,
                 stageGraphs, retGraph, stackGraphs, historyVars>>
  /\ UNCHANGED pipelineVars

\* The state after addPrePost returned b.
HooksAdded(b) ==
  /\ added' = b.st.added
  /\ calls' = b.st.calls
  /\ visits' = b.st.visits
  /\ barriers' = Append(barriers, [parent |-> b.parent, baseline |-> b.baseline,
                                   pre |-> b.pre, post |-> b.post, edges |-> b.edges])

StageHooks(b) ==
  /\ HooksAdded(b)
  /\ nodes' = b.st.nodes

\* addStage, lines 112-114: the hooks of the stage
StagePrePost ==
  /\ pc = "stagePrePost"
  /\ \E h \in HookLists(MaxSize - size) :
       /\ size' = size + Len(h[1]) + Len(h[2])
       /\ StageHooks(addPrePost(Here, h[1], h[2], retGraph))
       /\ stages' = [stages EXCEPT ![Len(stages)].pre = h[1], ![Len(stages)].post = h[2],
                                   ![Len(stages)].compiled = TRUE]
  /\ stageGraphs' = Append(stageGraphs, retGraph)
  /\ retGraph' = 0
  /\ stackGraphs' = <<>>
  /\ pc' = "waves"
  /\ UNCHANGED <<dependencySteps, hasOutput, selfMutation, stacks, waveLog, assetNodes,
                 synthNode, selfMutateNode, lastPreparationNode, fileAssetCtr,
                 dockerAssetCtr, cloudAssemblyFileSet, result, waves, requests>>
  /\ UNCHANGED pipelineVars

\* addWave, lines 69-71: the graph of the wave, in the graph ns; .ret is
\* the stage's own graph when there is one stage, else a new group named
\* after the wave that holds the graphs of the stages.
WaveGraph(ns, w, sgs) ==
  IF Len(sgs) = 1
  THEN [nodes |-> ns, ret |-> sgs[1]]
  ELSE [nodes |-> GraphAdd(Append(ns, GraphNodeOf(<<"Wave", w>>, "group", NoStep, 0, <<>>)),
                           Len(ns) + 1, {sgs[j] : j \in DOMAIN sgs}),
        ret |-> Len(ns) + 1]

\* The wave made to depend on the synth node, whatever self-mutation added.
WaveAddedOnSynth(h, g, b) ==
  /\ HooksAdded(b)
  /\ nodes' = DependOn(b.st.nodes, g, {synthNode})
  /\ waves' = Append(waves, g)
  /\ waveLog' = Append(waveLog, [graph |-> g, stages |-> stageGraphs,
                                 pre |-> h[1], post |-> h[2]])

\* addWave, lines 73-76, g being the graph of the wave and b what addPrePost
\* returned
WaveAdded(h, g, b) ==
  /\ HooksAdded(b)
  /\ nodes' = DependOn(b.st.nodes, g, {lastPreparationNode})
  /\ waves' = Append(waves, g)
  /\ waveLog' = Append(waveLog, [graph |-> g, stages |-> stageGraphs,
                                 pre |-> h[1], post |-> h[2]])

WaveHooks(h, wg) ==
  WaveAdded(h, wg.ret, addPrePost([Here EXCEPT !.nodes = wg.nodes], h[1], h[2], wg.ret))

\* addWave, lines 67-77, once the stages of the wave are compiled
AddWave ==
  /\ pc = "waves"
  /\ size + (IF stageGraphs = <<>> THEN 1 ELSE 0) <= MaxSize
  /\ \E h \in HookLists(MaxSize - size - (IF stageGraphs = <<>> THEN 1 ELSE 0)) :
       /\ size' = size + Len(h[1]) + Len(h[2]) + (IF stageGraphs = <<>> THEN 1 ELSE 0)
       /\ WaveHooks(h, WaveGraph(nodes, Len(waves) + 1, stageGraphs))
  /\ stageGraphs' = <<>>
  /\ UNCHANGED <<dependencySteps, hasOutput, selfMutation, stacks, stages, assetNodes,
                 synthNode, selfMutateNode, lastPreparationNode, fileAssetCtr,
                 dockerAssetCtr, cloudAssemblyFileSet, pc, result, retGraph,
                 stackGraphs, requests>>
  /\ UNCHANGED pipelineVars

\* Every wave depends on every wave before it.
sequenceWavesOnAllEarlier(ns, ws) ==
  [i \in DOMAIN ns |->
     [ns[i] EXCEPT !.deps = @ \cup {ws[k] : k \in {k \in 1..Len(ws) :
                                       \E j \in 2..Len(ws) : ws[j] = i /\ k < j}}]]

\* constructor, lines 53-57: waves[i].dependOn(waves[i - 1]), and the end
sequenceWaves(ns, ws) ==
  [i \in DOMAIN ns |->
     [ns[i] EXCEPT !.deps = @ \cup {ws[j - 1] : j \in {j \in 2..Len(ws) : ws[j] = i}}]]

SequenceWaves ==
  /\ pc = "waves"
  /\ stageGraphs = <<>>
  /\ nodes' = sequenceWaves(nodes, waves)
  /\ pc' = "done"
  /\ result' = "constructed"
  /\ UNCHANGED <<inputVars, added, assetNodes, synthNode, selfMutateNode,
                 lastPreparationNode, fileAssetCtr, dockerAssetCtr,
                 cloudAssemblyFileSet, waves, stageGraphs, retGraph, stackGraphs,
                 historyVars>>
  /\ UNCHANGED pipelineVars

Next ==
  \/ AddBuildStep
  \/ MissingCloudAssembly
  \/ SetCloudAssembly
  \/ SelfMutation
  \/ BeginStage
  \/ AddStack
  \/ PublishAsset
  \/ StackDependencies
  \/ StagePrePost
  \/ AddWave
  \/ SequenceWaves

Spec == Init /\ [][Next]_vars

\* --------------------------------------------------------------- Pipeline
\* bp-main/pipeline.ts.  Every action is one call of a method of the
\* Pipeline; the log records the method, what it threw, the value of `built`
\* before and after, whether the blueprint took the stage or wave, and the
\* invocations of engine.buildDeployment before the call and during it.
\* blueprint.addStage and blueprint.addWave take what they are given, and
\* engine.buildDeployment returns or throws.
NoError == "none"
AddStageError == "addStage: can't add Stages anymore after build() has been called"
BuildError == "build() has already been called: can only call it once"
EngineError == "buildDeployment threw"

Call(op, thrown, builtAfter, isAdded, invoked) ==
  [op |-> op, thrown |-> thrown, built |-> built, builtAfter |-> builtAfter,
   added |-> isAdded, engineCalls |-> engineCalls, invoked |-> invoked]

\* lines 29-35
Pipeline_addStage ==
  /\ Len(log) < MaxCalls
  /\ IF built
     THEN /\ log' = Append(log, Call("addStage", AddStageError, built, FALSE, 0))
          /\ UNCHANGED blueprint
     ELSE /\ blueprint' = Append(blueprint, "stage")
          /\ log' = Append(log, Call("addStage", NoError, built, TRUE, 0))
  /\ UNCHANGED <<built, engineCalls, compilerVars>>

\* lines 37-43
Pipeline_addWave ==
  /\ Len(log) < MaxCalls
  /\ IF built
     THEN /\ log' = Append(log, Call("addWave", AddStageError, built, FALSE, 0))
          /\ UNCHANGED blueprint
     ELSE /\ blueprint' = Append(blueprint, "wave")
          /\ log' = Append(log, Call("addWave", NoError, built, TRUE, 0))
  /\ UNCHANGED <<built, engineCalls, compilerVars>>

\* lines 45-51: build(), called as the method op; the flag is set once
\* engine.buildDeployment has returned
build(op, throws) ==
  IF built
  THEN /\ log' = Append(log, Call(op, BuildError, built, FALSE, 0))
       /\ UNCHANGED <<built, engineCalls>>
  ELSE /\ engineCalls' = engineCalls + 1
       /\ IF throws
          THEN /\ log' = Append(log, Call(op, EngineError, built, FALSE, 1))
               /\ UNCHANGED built
          ELSE /\ log' = Append(log, Call(op, NoError, TRUE, FALSE, 1))
               /\ built' = TRUE

Pipeline_build ==
  /\ Len(log) < MaxCalls
  /\ \E throws \in BOOLEAN : build("build", throws)
  /\ UNCHANGED <<blueprint, compilerVars>>

\* lines 53-57
Pipeline_prepare ==
  /\ Len(log) < MaxCalls
  /\ IF ~built
     THEN \E throws \in BOOLEAN : build("prepare", throws)
     ELSE /\ log' = Append(log, Call("prepare", NoError, built, FALSE, 0))
          /\ UNCHANGED <<built, engineCalls>>
  /\ UNCHANGED <<blueprint, compilerVars>>

\* A new Pipeline; no GraphFromBlueprint is being constructed.
PipelineInit ==
  /\ PipelineFieldsInit
  /\ dependencySteps = [s \in Steps |-> <<>>]
  /\ size = 0
  /\ hasOutput = TRUE
  /\ selfMutation = FALSE
  /\ FieldsInit

PipelineNext ==
  \/ Pipeline_addStage
  \/ Pipeline_addWave
  \/ Pipeline_build
  \/ Pipeline_prepare

PipelineSpec == PipelineInit /\ [][PipelineNext]_vars
\* ----------------------------------------------------------------- views
\* The top-level group with that name, 0 when it was never asked for.
TopLevel(name) == TryGetChild(nodes, Root, <<name, 0>>)

\* The step nodes of a Step.
StepNodes(s) == {i \in DOMAIN nodes : nodes[i].type = "step" /\ nodes[i].step = s}

\* The assets publishAsset was asked for.
Requested == {requests[j].asset : j \in DOMAIN requests}
RequestedIds(type) == {a.assetId : a \in {a \in Requested : a.assetType = type}}

\* The publish nodes of "Assets" that publish an asset with that assetId.
PublishNodes(id) ==
  {i \in DOMAIN nodes :
     /\ nodes[i].type = "publish-assets"
     /\ nodes[i].parent = TopLevel("Assets")
     /\ \E k \in DOMAIN nodes[i].assets : nodes[i].assets[k].assetId = id}

Selectors(i) == {nodes[i].assets[k].assetSelector : k \in DOMAIN nodes[i].assets}

\* ---------------------------------------------------------------- claims
\* C1: after construction every requested assetId has exactly one publish
\* node in "Assets", and that node's asset list holds every selector that
\* was requested for the id.
C1_OnePublishNodePerAssetId ==
  pc = "done" =>
    \A id \in {a.assetId : a \in Requested} :
      /\ Cardinality(PublishNodes(id)) = 1
      /\ \A i \in PublishNodes(id) :
           {a.assetSelector : a \in {a \in Requested : a.assetId = id}} \subseteq Selectors(i)

\* C2: the file counter is the number of distinct file assetIds requested and
\* the docker counter the number of distinct docker assetIds requested.
C2_CountersCountDistinctIds ==
  /\ fileAssetCtr = Cardinality(RequestedIds("file"))
  /\ dockerAssetCtr = Cardinality(RequestedIds("docker-image"))
\* C3: every Step has at most one node; every call of addAndRecurse for the
\* Step returns that node, only one call creates a node, and the node stays
\* in the group of its first placement whatever parent later calls pass.
C3_StepHasOneNode ==
  /\ \A s \in Steps :
       /\ Cardinality(StepNodes(s)) <= 1
       /\ Cardinality({v \in visits : v.step = s /\ v.created}) <= 1
       /\ added[s] # 0 <=> StepNodes(s) # {}
       /\ Cardinality({i \in DOMAIN nodes : nodes[i].name = <<s, 0>>}) <= 1
  /\ \A v \in visits :
       /\ v.ret = added[v.step]
       /\ v.ret \in StepNodes(v.step)
       /\ nodes[v.ret].parent = v.placed

\* A Step was visited again with a parent other than the group that holds it,
\* and construction has ended.
C3_Witness ==
  /\ pc = "done"
  /\ \E v \in visits :
       /\ ~v.created
       /\ v.parent # nodes[v.ret].parent
       /\ nodes[v.parent].name[1] = "Stage"
       /\ nodes[nodes[v.ret].parent].name[1] = "Stage"
       /\ \E w \in visits : w.created /\ w.step = v.step /\ w.placed # v.parent

\* C8: the node of a source Step is a child of the top-level "Source" group,
\* whatever parent addAndRecurse was called with.
C8_SourceInSourceGroup ==
  /\ \A v \in visits :
       v.step \in SourceSteps =>
         /\ TopLevel("Source") # 0
         /\ nodes[v.ret].parent = TopLevel("Source")
  /\ \A s \in SourceSteps : \A i \in StepNodes(s) :
       /\ nodes[i].parent # 0
       /\ nodes[i].parent = TopLevel("Source")
       /\ nodes[nodes[i].parent].parent = Root

\* A source Step was first visited with a stage group as the parent.
C8_Witness ==
  \E v \in visits :
    /\ v.created
    /\ v.step \in SourceSteps
    /\ nodes[v.parent].name[1] = "Stage"
    /\ nodes[v.ret].parent # v.parent
\* The groups a node is in, itself included.
RECURSIVE Ancestors(_)
Ancestors(i) == IF i = 0 THEN {} ELSE {i} \cup Ancestors(nodes[i].parent)

\* x is ordered after y by one dependency edge, an edge on a group being read
\* as an edge on the nodes it contains.
OrderedAfter(x, y) ==
  \E u \in Ancestors(x) : nodes[u].deps \cap Ancestors(y) # {}

\* C5: after construction wave i depends on wave i-1, and on no other wave.
C5_WavesSequential ==
  pc = "done" =>
    \A i, k \in DOMAIN waves :
      (waves[k] \in nodes[waves[i]].deps) <=> (k + 1 = i)

\* Three waves were compiled.
C5_Witness == pc = "done" /\ Len(waves) = 3

\* C7: the group of a stack depends on the group of every stack of the stage
\* it dependsOn, and so its Prepare is ordered after the Deploy of that stack.
C7_CrossStackOrdering ==
  \A k2 \in DOMAIN stacks : \A k1 \in stacks[k2].dependsOnStacks :
    /\ stacks[k1].stage = stacks[k2].stage
    /\ stacks[k1].graph \in nodes[stacks[k2].graph].deps
    /\ nodes[stacks[k2].prepare].name = <<"Prepare", 0>>
    /\ nodes[stacks[k1].deploy].name = <<"Deploy", 0>>
    /\ OrderedAfter(stacks[k2].prepare, stacks[k1].deploy)

\* A stack depends on a stack declared after it in the stage.
C7_Witness ==
  /\ pc = "done"
  /\ \E k2 \in DOMAIN stacks : \E k1 \in stacks[k2].dependsOnStacks : k2 < k1

\* C10: without a synth output the constructor throws right after adding the
\* synth step: nothing is returned, and no "UpdatePipeline" group, wave,
\* stage, stack or asset was compiled.
C10_MissingOutputFails ==
  ~hasOutput =>
    /\ pc \in {"addBuildStep", "cloudAssembly", "failed"}
    /\ result # "constructed"
    /\ pc = "failed" => result = "error"
    /\ TopLevel("UpdatePipeline") = 0
    /\ TopLevel("Assets") = 0
    /\ selfMutateNode = 0
    /\ cloudAssemblyFileSet = NoStep
    /\ waves = <<>> /\ stageGraphs = <<>> /\ stages = <<>> /\ stacks = <<>>
    /\ requests = <<>> /\ barriers = <<>>

\* The constructor threw for a blueprint that asked for self-mutation.
C10_Witness == pc = "failed" /\ result = "error" /\ ~hasOutput /\ selfMutation
\* The nodes reachable from the set X along the edges of R.
RECURSIVE ReachFrom(_, _)
ReachFrom(R, X) ==
  LET Y == X \cup {e[2] : e \in {e \in R : e[1] \in X}}
  IN IF Y = X THEN X ELSE ReachFrom(R, Y)

HasCycle(R) == \E e \in R : e[1] \in ReachFrom(R, {e[2]})

\* The declared dependencies of the blueprint read so far.
StepEdges ==
  {e \in Steps \X Steps :
     \E k \in DOMAIN dependencySteps[e[1]] : dependencySteps[e[1]][k] = e[2]}
StackEdges ==
  {e \in (DOMAIN stacks) \X (DOMAIN stacks) : e[2] \in stacks[e[1]].dependsOnStacks}

\* The dependency relation of the graph: the edges as recorded, and as they
\* order the nodes when an edge on a group applies to the nodes it contains.
DirectEdges == {e \in (DOMAIN nodes) \X (DOMAIN nodes) : e[2] \in nodes[e[1]].deps}
GraphEdges == {e \in (DOMAIN nodes) \X (DOMAIN nodes) : OrderedAfter(e[1], e[2])}

\* C4: for a blueprint whose Step dependencies and stack dependencies are
\* acyclic, the dependency relation of the compiled graph is acyclic.
C4_GraphAcyclic ==
  (pc = "done" /\ ~HasCycle(StepEdges) /\ ~HasCycle(StackEdges)) =>
    /\ \A i \in DOMAIN nodes : i \notin nodes[i].deps
    /\ ~HasCycle(GraphEdges)

\* C6: in every addPrePost call every baseline node depends on every pre node,
\* every post node depends on every baseline node, and the edges the barrier
\* adds run neither from a post node to a pre node or to another post node,
\* nor between pre nodes.
C6_Barrier ==
  \A j \in DOMAIN barriers :
    LET b == barriers[j] IN
    /\ \A c \in b.baseline : b.pre \subseteq nodes[c].deps
    /\ \A q \in b.post : b.baseline \subseteq nodes[q].deps
    /\ \A e \in b.edges :
         /\ ~(e[1] \in b.post /\ e[2] \in b.pre)
         /\ ~(e[1] \in b.post /\ e[2] \in b.post /\ e[1] # e[2])
         /\ ~(e[1] \in b.pre /\ e[2] \in b.pre /\ e[1] # e[2])

\* C9: a wave with one stage compiles to the stage's group, which holds the
\* stage's stack groups and the nodes its hooks created, and no group is named
\* after the wave; any other wave compiles to a group named after the wave
\* that holds the groups of its stages.
C9_WaveElision ==
  pc = "done" =>
    \A w \in DOMAIN waveLog :
      LET g == waveLog[w].graph
          sgs == {waveLog[w].stages[j] : j \in DOMAIN waveLog[w].stages}
      IN IF Len(waveLog[w].stages) = 1
         THEN /\ g \in sgs
              /\ nodes[g].name[1] = "Stage"
              /\ ~\E i \in DOMAIN nodes : nodes[i].name = <<"Wave", w>>
              /\ \A k \in DOMAIN stacks :
                   stages[stacks[k].stage].graph = g => nodes[stacks[k].graph].parent = g
              /\ \A v \in visits :
                   (v.created /\ v.parent = g /\ v.step \notin SourceSteps) =>
                     nodes[v.ret].parent = g
         ELSE /\ nodes[g].name = <<"Wave", w>>
              /\ nodes[g].type = "group"
              /\ \A i \in sgs : nodes[i].parent = g
              /\ {i \in GraphNodes(nodes, g) : nodes[i].name[1] = "Stage"} = sgs
\* The node every wave and every publish node has to wait for.
LastPreparation == IF selfMutation THEN selfMutateNode ELSE synthNode

\* C11: the last preparation node is the synth node without self-mutation and
\* the SelfMutate node with it; it is set before any wave, stage or asset is
\* compiled and stays; every wave graph and every publish node depends on it;
\* with self-mutation the SelfMutate node is the only child of
\* "UpdatePipeline" and depends on the synth node.
C11_LastPreparationNode ==
  /\ pc \in {"addBuildStep", "cloudAssembly", "selfMutation"} =>
       waves = <<>> /\ stages = <<>> /\ requests = <<>>
  /\ pc \in {"waves", "stacks", "stagePrePost", "done"} =>
       /\ lastPreparationNode = LastPreparation
       /\ lastPreparationNode # 0
       /\ nodes[lastPreparationNode].type = IF selfMutation THEN "self-update" ELSE "step"
       /\ nodes[synthNode].step = SynthStep
       /\ selfMutation =>
            /\ TopLevel("UpdatePipeline") # 0
            /\ GraphNodes(nodes, TopLevel("UpdatePipeline")) = {selfMutateNode}
            /\ nodes[selfMutateNode].name = <<"SelfMutate", 0>>
            /\ synthNode \in nodes[selfMutateNode].deps
  /\ \A j \in DOMAIN waves : LastPreparation \in nodes[waves[j]].deps
  /\ \A i \in DOMAIN nodes :
       nodes[i].type = "publish-assets" => LastPreparation \in nodes[i].deps

\* With self-mutation, a wave and a publish node were compiled.
C11_Witness ==
  /\ pc = "done"
  /\ selfMutation
  /\ waves # <<>>
  /\ \E i \in DOMAIN nodes : nodes[i].type = "publish-assets"
\* build() was entered by call i of the log.
BuildCalled(i) == log[i].op = "build" \/ (log[i].op = "prepare" /\ ~log[i].built)

\* C12: after a call of build() every addStage and addWave throws and leaves
\* the blueprint as it is; everything the blueprint holds was added before
\* engine.buildDeployment was invoked.
C12_NoAddAfterBuild ==
  /\ \A i, j \in DOMAIN log :
       (i < j /\ BuildCalled(i) /\ log[j].op \in {"addStage", "addWave"}) =>
         /\ log[j].thrown = AddStageError
         /\ ~log[j].added
  /\ \A j \in DOMAIN log : log[j].added => log[j].engineCalls = 0
  /\ Len(blueprint) = Cardinality({j \in DOMAIN log : log[j].added})

\* C13: every build() after an earlier call of build() throws the 'already
\* been called' error, and engine.buildDeployment is invoked at most once.
C13_BuildOnce ==
  /\ engineCalls <= 1
  /\ \A i, j \in DOMAIN log :
       (i < j /\ BuildCalled(i) /\ log[j].op = "build") => log[j].thrown = BuildError

\* C14: after construction the Prepare node of every stack depends, for every
\* asset the stack requires, on the node the memo holds for the assetId, and
\* the asset list of that node has the asset's selector.
C14_PrepareDependsOnMemoNode ==
  pc = "done" =>
    \A k \in DOMAIN stacks : \A j \in DOMAIN stacks[k].requiredAssets :
      LET a == stacks[k].requiredAssets[j] IN
      /\ assetNodes[a.assetId] # 0
      /\ assetNodes[a.assetId] \in nodes[stacks[k].prepare].deps
      /\ a.assetSelector \in Selectors(assetNodes[a.assetId])

\* C15: after construction every wave graph, stage group, stack group,
\* Prepare node, Deploy node and hook node is reachable from the root group
\* through parent-child links.
C15_AttachedToRoot ==
  pc = "done" =>
    /\ \A j \in DOMAIN waves : Root \in Ancestors(waves[j])
    /\ \A j \in DOMAIN stages : Root \in Ancestors(stages[j].graph)
    /\ \A k \in DOMAIN stacks :
         /\ Root \in Ancestors(stacks[k].graph)
         /\ Root \in Ancestors(stacks[k].prepare)
         /\ Root \in Ancestors(stacks[k].deploy)
    /\ \A j \in DOMAIN barriers : \A n \in barriers[j].pre \cup barriers[j].post :
         Root \in Ancestors(n)

\* C16: every stack has one stack group, which holds exactly its Prepare and
\* Deploy nodes; Deploy depends on Prepare, and Prepare on the node of the
\* Step that produces the stack's custom cloud assembly, or the shared one
\* when it has none; a producer that is no source Step and got its node in
\* this call is a child of the stage's group.
C16_StackGroup ==
  \A k \in DOMAIN stacks :
    LET s == stacks[k]
        producer == IF s.custom # NoStep THEN s.custom ELSE SynthStep
    IN /\ {i \in DOMAIN nodes : nodes[i].type = "stack-group" /\ nodes[i].stack = k}
            = {s.graph}
       /\ GraphNodes(nodes, s.graph) = {s.prepare, s.deploy}
       /\ s.prepare # s.deploy
       /\ nodes[s.prepare].name = <<"Prepare", 0>> /\ nodes[s.prepare].type = "prepare"
       /\ nodes[s.deploy].name = <<"Deploy", 0>> /\ nodes[s.deploy].type = "execute"
       /\ s.prepare \in nodes[s.deploy].deps
       /\ added[producer] # 0
       /\ nodes[added[producer]].step = producer
       /\ added[producer] \in nodes[s.prepare].deps
       /\ (producer \notin SourceSteps /\ added[producer] = s.deploy + 1) =>
            nodes[added[producer]].parent = stages[s.stage].graph

\* A stack's custom cloud assembly is produced by a Step that is no source
\* Step and was first visited for this stack; another stack uses the shared
\* cloud assembly.
C16_Witness ==
  /\ pc = "done"
  /\ \E k \in DOMAIN stacks :
       /\ stacks[k].custom \in UserSteps \ SourceSteps
       /\ added[stacks[k].custom] = stacks[k].deploy + 1
  /\ \E k \in DOMAIN stacks : stacks[k].custom = NoStep

\* C17: after construction, for every Step that has a node and every Step it
\* declares as a dependency, the dependency has a node and the node of the
\* Step holds an edge on it.
C17_DeclaredEdges ==
  pc = "done" =>
    \A e \in StepEdges :
      added[e[1]] # 0 =>
        /\ added[e[2]] # 0
        /\ added[e[2]] \in nodes[added[e[1]]].deps

\* A declared dependency lies on a cycle of declared dependencies, and the
\* Step depended on got its node before the Step that declares it.
C17_Witness ==
  /\ pc = "done"
  /\ \E e \in StepEdges :
       /\ e[1] # e[2]
       /\ added[e[1]] # 0
       /\ added[e[2]] # 0
       /\ added[e[2]] < added[e[1]]
       /\ e[1] \in ReachFrom(StepEdges, {e[2]})

\* The sum of f over the set S.
RECURSIVE Sum(_, _)
Sum(f, S) ==
  IF S = {} THEN 0
  ELSE LET x == CHOOSE x \in S : TRUE IN f[x] + Sum(f, S \ {x})

\* The hooks listed by the stages and waves compiled so far.
HookCount(q) == Sum([j \in DOMAIN q |-> Len(q[j].pre) + Len(q[j].post)], DOMAIN q)

\* The calls of addAndRecurse the constructor, addStage and addPrePost have
\* made themselves, and the Steps they were made for.
TopCalls ==
  (IF pc = "addBuildStep" THEN 0 ELSE 1) + Len(stacks) + HookCount(stages)
    + HookCount(waveLog)
StartSteps ==
  (IF pc = "addBuildStep" THEN {} ELSE {SynthStep})
    \cup {cloudAssemblyProducer(stacks[k].custom) : k \in DOMAIN stacks}
    \cup UNION {{q[j].pre[i] : i \in DOMAIN q[j].pre} \cup {q[j].post[i] : i \in DOMAIN q[j].post} :
                  <<q, j>> \in ({stages} \X DOMAIN stages) \cup ({waveLog} \X DOMAIN waveLog)}

\* C18: addAndRecurse returns after a bounded number of calls, also for Steps
\* on a dependency cycle: a Step is entered for creation at most once, the
\* step nodes are at most the Steps reachable from the Steps it was started
\* for, and beyond the calls made from outside there is one recursive call
\* for every declared dependency of a Step that has a node.
C18_CreationBounded ==
  /\ \A s \in Steps : Cardinality({v \in visits : v.step = s /\ v.created}) <= 1
  /\ {nodes[i].step : i \in {i \in DOMAIN nodes : nodes[i].type = "step"}}
       \subseteq ReachFrom(StepEdges, StartSteps)
  /\ Cardinality({i \in DOMAIN nodes : nodes[i].type = "step"})
       <= Cardinality(ReachFrom(StepEdges, StartSteps))
  /\ calls = TopCalls
             + Sum([s \in Steps |-> Len(dependencySteps[s])], {s \in Steps : added[s] # 0})

\* Two Steps that depend on each other have nodes, and one of them was asked
\* for again after that.
C18_Witness ==
  /\ pc = "done"
  /\ \E e \in StepEdges :
       /\ e[1] # e[2]
       /\ <<e[2], e[1]>> \in StepEdges
       /\ added[e[1]] # 0
       /\ Cardinality({v \in visits : v.step = e[1]}) >= 3

\* C19: prepare() on a Pipeline that is not built invokes
\* engine.buildDeployment once and leaves the Pipeline built; on a built
\* Pipeline it invokes nothing, throws nothing and leaves it built.
C19_PrepareBuildsWhenNeeded ==
  \A j \in DOMAIN log :
    log[j].op = "prepare" =>
      IF ~log[j].built
      THEN log[j].invoked = 1 /\ log[j].builtAfter
      ELSE log[j].invoked = 0 /\ log[j].thrown = NoError /\ log[j].builtAfter

\* C20: in every state every entry of the asset memo is a publish-assets node
\* that publishes an asset with the entry's assetId, and publishAsset has
\* never thrown: construction fails only for a missing synth output.
C20_MemoHoldsPublishNodes ==
  /\ \A id \in AssetIds :
       assetNodes[id] # 0 =>
         /\ nodes[assetNodes[id]].type = "publish-assets"
         /\ \E k \in DOMAIN nodes[assetNodes[id]].assets :
              nodes[assetNodes[id]].assets[k].assetId = id
  /\ \A j \in DOMAIN requests :
       /\ ~requests[j].thrown
       /\ requests[j].ret # 0
       /\ nodes[requests[j].ret].type = "publish-assets"
  /\ pc = "failed" => (~hasOutput /\ requests = <<>>)

\* publishAsset was called for an assetId the memo had an entry for, so the
\* check of the entry's annotation ran.
C20_Witness ==
  \E i, j \in DOMAIN requests :
    /\ i < j
    /\ requests[i].asset.assetId = requests[j].asset.assetId
    /\ requests[i].asset.assetSelector # requests[j].asset.assetSelector
====
